---------------------------- MODULE Spec2Model ----------------------------
(***************************************************************************)
(* Model of the die-scan calculator CLI (die-scan-calculator-cli.ts):      *)
(* the pure function calc and the control flow of main with its            *)
(* top-level catch handler.                                                *)
(*                                                                         *)
(* Numbers.  A JavaScript number is modelled as a pair [n, d] with d >= 0  *)
(* in lowest terms: d > 0 is the rational n/d, [1,0] is Infinity, [-1,0]   *)
(* is -Infinity and [0,0] is NaN.  Arithmetic is exact: the rounding of    *)
(* IEEE doubles and the sign of zero are not modelled.                     *)
(***************************************************************************)
EXTENDS Integers, Sequences, FiniteSets, TLC

(***************************************************************************)
(* Number arithmetic                                                       *)
(***************************************************************************)
Abs(x) == IF x < 0 THEN -x ELSE x

Sign(x) == IF x < 0 THEN -1 ELSE IF x > 0 THEN 1 ELSE 0

RECURSIVE GCD(_, _)
GCD(a, b) == IF b = 0 THEN a ELSE GCD(b, a % b)

\* The number n/d in canonical form (d >= 0, lowest terms).
Norm(n, d) ==
  IF d = 0 THEN [n |-> Sign(n), d |-> 0]
  ELSE LET g == GCD(Abs(n), Abs(d))
           s == Sign(d)
       IN  [n |-> (s * n) \div g, d |-> Abs(d) \div g]

Num(i) == [n |-> i, d |-> 1]

NaN == [n |-> 0, d |-> 0]

PosInf == [n |-> 1, d |-> 0]

IsNaN(a) == a.n = 0 /\ a.d = 0

IsFinite(a) == a.d > 0

IsInteger(a) == a.d = 1

\* a * b, cross-reduced before multiplying.
Mul(a, b) ==
  IF a.d = 0 \/ b.d = 0 THEN Norm(a.n * b.n, a.d * b.d)
  ELSE LET x == Norm(a.n, b.d)
           y == Norm(b.n, a.d)
       IN  Norm(x.n * y.n, x.d * y.d)

\* a / b: x/0 is +-Infinity, 0/0 and Infinity/Infinity are NaN.
Div(a, b) ==
  IF a.d = 0 \/ b.d = 0 \/ b.n = 0
    THEN Norm(a.n * b.d * (IF b.n < 0 THEN -1 ELSE 1), a.d * Abs(b.n))
    ELSE Mul(a, Norm(b.d, b.n))

\* a + b: Infinity + -Infinity is NaN.
Add(a, b) ==
  IF IsNaN(a) \/ IsNaN(b) THEN NaN
  ELSE IF a.d = 0 /\ b.d = 0 THEN (IF a.n = b.n THEN a ELSE NaN)
  ELSE IF a.d = 0 THEN a
  ELSE IF b.d = 0 THEN b
  ELSE LET g == GCD(a.d, b.d)
       IN  Norm(a.n * (b.d \div g) + b.n * (a.d \div g), (a.d \div g) * b.d)

Neg(a) == [n |-> -a.n, d |-> a.d]

Sub(a, b) == Add(a, Neg(b))

\* Position of an infinite value relative to the finite ones.
Level(a) == IF a.d = 0 THEN a.n ELSE 0

\* a < b; false when either side is NaN.
Lt(a, b) ==
  /\ ~IsNaN(a)
  /\ ~IsNaN(b)
  /\ IF a.d = 0 \/ b.d = 0 THEN Level(a) < Level(b)
     ELSE LET g == GCD(a.d, b.d)
          IN  a.n * (b.d \div g) < b.n * (a.d \div g)

Gt(a, b) == Lt(b, a)

\* a <= b; false when either side is NaN.
Le(a, b) == ~IsNaN(a) /\ ~IsNaN(b) /\ ~Lt(b, a)

Ge(a, b) == Le(b, a)

\* Math.ceil
Ceil(a) == IF a.d = 0 THEN a ELSE Num(-((-a.n) \div a.d))

\* JavaScript truthiness of a number: false for 0 and NaN.
Truthy(a) == ~IsNaN(a) /\ a.n # 0

(***************************************************************************)
(* calc: Inputs -> Results                                                 *)
(***************************************************************************)
mmPerInch == Norm(254, 10)

PixelSizeObjMm(dpi) == Div(mmPerInch, dpi)

\* Mutant: the quotient taken the wrong way round.
PxNeededAcrossInverted(widthMm, pixelSizeObjMm) == Div(pixelSizeObjMm, widthMm)

PxNeededAcross(widthMm, pixelSizeObjMm) == Div(widthMm, pixelSizeObjMm)

PxNeededWithMargin(pxNeededAcross, overlap) ==
  Mul(pxNeededAcross, Add(Num(1), overlap))

\* Mutant: the operands of 1 - overlap swapped.
CamsQuotientSwapped(pxNeededWithMargin, sensorPx, overlap) ==
  Div(pxNeededWithMargin, Mul(sensorPx, Sub(overlap, Num(1))))

\* Mutant: the overlap is not shaved off the sensor's pixels.
CamsQuotientNoShrink(pxNeededWithMargin, sensorPx, overlap) ==
  Div(pxNeededWithMargin, sensorPx)

\* The quotient whose ceiling is the required camera count.
CamsQuotient(pxNeededWithMargin, sensorPx, overlap) ==
  Div(pxNeededWithMargin, Mul(sensorPx, Sub(Num(1), overlap)))

\* Mutant: Math.floor in place of Math.ceil.
CamsRequiredFloor(pxNeededWithMargin, sensorPx, overlap) ==
  Neg(Ceil(Neg(CamsQuotient(pxNeededWithMargin, sensorPx, overlap))))

\* Mutant: Math.round in place of Math.ceil.
CamsRequiredRound(pxNeededWithMargin, sensorPx, overlap) ==
  Neg(Ceil(Neg(Add(CamsQuotient(pxNeededWithMargin, sensorPx, overlap),
                   Norm(1, 2)))))

CamsRequired(pxNeededWithMargin, sensorPx, overlap) ==
  Ceil(CamsQuotient(pxNeededWithMargin, sensorPx, overlap))

\* Mutant: the supplied count is ignored.
CamsUsedIgnoresCameras(cameras, camsRequired) == camsRequired

\* cameras || camsRequired
CamsUsed(cameras, camsRequired) ==
  IF Truthy(cameras) THEN cameras ELSE camsRequired

FovPerCamMm(widthMm, overlap, camsUsed) ==
  Div(Mul(widthMm, Add(Num(1), overlap)), camsUsed)

SensorLengthMm(sensorPx, pixelPitchUm) ==
  Mul(sensorPx, Div(pixelPitchUm, Num(1000)))

Magnification(sensorLengthMm, fovPerCamMm) == Div(sensorLengthMm, fovPerCamMm)

\* Mutant: 1 - M in the denominator.
FocalLengthMmSignSlip(magnification, wdMm) ==
  Div(Mul(magnification, wdMm), Sub(Num(1), magnification))

FocalLengthMm(magnification, wdMm) ==
  Div(Mul(magnification, wdMm), Add(Num(1), magnification))

\* Mutant: the count used is reported as camsRequired.
calcReportsCamsUsed(inputs) ==
  LET pixelSizeObjMm == PixelSizeObjMm(inputs.dpi)
      pxNeededAcross == PxNeededAcross(inputs.widthMm, pixelSizeObjMm)
      pxNeededWithMargin == PxNeededWithMargin(pxNeededAcross, inputs.overlap)
      camsUsed ==
        CamsUsed(inputs.cameras,
                 CamsRequired(pxNeededWithMargin, inputs.sensorPx,
                              inputs.overlap))
      fovPerCamMm == FovPerCamMm(inputs.widthMm, inputs.overlap, camsUsed)
      sensorLengthMm == SensorLengthMm(inputs.sensorPx, inputs.pixelPitchUm)
      magnification == Magnification(sensorLengthMm, fovPerCamMm)
  IN  [pixelSizeObjMm |-> pixelSizeObjMm,
       eqDpi |-> Div(mmPerInch, pixelSizeObjMm),
       pxNeededAcross |-> pxNeededAcross,
       pxNeededWithMargin |-> pxNeededWithMargin,
       usablePxPerCam |-> inputs.sensorPx,
       camsRequired |-> camsUsed,
       fovPerCamMm |-> fovPerCamMm,
       sensorLengthMm |-> sensorLengthMm,
       magnification |-> magnification,
       focalLengthMm |-> FocalLengthMm(magnification, inputs.wdMm),
       linePitchMm |-> pixelSizeObjMm,
       linesNeeded |-> Div(inputs.lengthMm, pixelSizeObjMm),
       lineRateHz |-> Div(inputs.speedMmS, pixelSizeObjMm)]

calc(inputs) ==
  LET pixelSizeObjMm == PixelSizeObjMm(inputs.dpi)
      pxNeededAcross == PxNeededAcross(inputs.widthMm, pixelSizeObjMm)
      pxNeededWithMargin == PxNeededWithMargin(pxNeededAcross, inputs.overlap)
      camsRequired ==
        CamsRequired(pxNeededWithMargin, inputs.sensorPx, inputs.overlap)
      camsUsed == CamsUsed(inputs.cameras, camsRequired)
      usablePxPerCam == inputs.sensorPx
      fovPerCamMm == FovPerCamMm(inputs.widthMm, inputs.overlap, camsUsed)
      sensorLengthMm == SensorLengthMm(inputs.sensorPx, inputs.pixelPitchUm)
      magnification == Magnification(sensorLengthMm, fovPerCamMm)
      focalLengthMm == FocalLengthMm(magnification, inputs.wdMm)
      linePitchMm == pixelSizeObjMm
      linesNeeded == Div(inputs.lengthMm, linePitchMm)
      lineRateHz == Div(inputs.speedMmS, linePitchMm)
      eqDpi == Div(mmPerInch, pixelSizeObjMm)
  IN  [pixelSizeObjMm |-> pixelSizeObjMm,
       eqDpi |-> eqDpi,
       pxNeededAcross |-> pxNeededAcross,
       pxNeededWithMargin |-> pxNeededWithMargin,
       usablePxPerCam |-> usablePxPerCam,
       camsRequired |-> camsRequired,
       fovPerCamMm |-> fovPerCamMm,
       sensorLengthMm |-> sensorLengthMm,
       magnification |-> magnification,
       focalLengthMm |-> focalLengthMm,
       linePitchMm |-> linePitchMm,
       linesNeeded |-> linesNeeded,
       lineRateHz |-> lineRateHz]

(***************************************************************************)
(* Number(v) on a string.  A string is a tuple of one-character strings.   *)
(* Covers the decimal grammar (sign, digits, fraction, exponent),          *)
(* "Infinity", surrounding blanks and the empty string; strings with a     *)
(* 0x/0o/0b prefix are outside the alphabet used here.                     *)
(***************************************************************************)
DigitChars == <<"0", "1", "2", "3", "4", "5", "6", "7", "8", "9">>

Digits == {DigitChars[i] : i \in 1..Len(DigitChars)}

DigitVal(c) == (CHOOSE i \in 1..Len(DigitChars) : DigitChars[i] = c) - 1

AllDigits(s) == \A i \in 1..Len(s) : s[i] \in Digits

RECURSIVE DigitsVal(_)
DigitsVal(s) ==
  IF s = <<>> THEN 0
  ELSE 10 * DigitsVal(SubSeq(s, 1, Len(s) - 1)) + DigitVal(s[Len(s)])

RECURSIVE Pow10(_)
Pow10(k) == IF k = 0 THEN 1 ELSE 10 * Pow10(k - 1)

RECURSIVE TrimLeft(_)
TrimLeft(s) == IF s # <<>> /\ s[1] = " " THEN TrimLeft(Tail(s)) ELSE s

RECURSIVE TrimRight(_)
TrimRight(s) ==
  IF s # <<>> /\ s[Len(s)] = " " THEN TrimRight(SubSeq(s, 1, Len(s) - 1))
  ELSE s

\* First position in s of a character of cs, 0 when there is none.
IndexOf(s, cs) ==
  IF \E i \in 1..Len(s) : s[i] \in cs
    THEN CHOOSE i \in 1..Len(s) :
           s[i] \in cs /\ \A j \in 1..(i - 1) : s[j] \notin cs
    ELSE 0

InfinityChars == <<"I", "n", "f", "i", "n", "i", "t", "y">>

\* An unsigned decimal literal: digits [. digits] [e [+-] digits].
StrDecimal(body) ==
  LET ePos == IndexOf(body, {"e", "E"})
      mant == IF ePos = 0 THEN body ELSE SubSeq(body, 1, ePos - 1)
      expo == IF ePos = 0 THEN <<>> ELSE SubSeq(body, ePos + 1, Len(body))
      dot == IndexOf(mant, {"."})
      ip == IF dot = 0 THEN mant ELSE SubSeq(mant, 1, dot - 1)
      fp == IF dot = 0 THEN <<>> ELSE SubSeq(mant, dot + 1, Len(mant))
      eSigned == expo # <<>> /\ expo[1] \in {"+", "-"}
      eDigits == IF eSigned THEN Tail(expo) ELSE expo
      ok == /\ AllDigits(ip)
            /\ AllDigits(fp)
            /\ Len(ip) + Len(fp) > 0
            /\ ePos = 0 \/ (eDigits # <<>> /\ AllDigits(eDigits))
  IN  IF ~ok THEN NaN
      ELSE LET m == Norm(DigitsVal(ip) * Pow10(Len(fp)) + DigitsVal(fp),
                         Pow10(Len(fp)))
               e == Num(Pow10(DigitsVal(eDigits)))
           IN  IF eSigned /\ expo[1] = "-" THEN Div(m, e) ELSE Mul(m, e)

ToNumber(s) ==
  LET t == TrimRight(TrimLeft(s))
      signed == t # <<>> /\ t[1] \in {"+", "-"}
      body == IF signed THEN Tail(t) ELSE t
      v == IF body = InfinityChars THEN PosInf
           ELSE IF body = <<>> THEN NaN
           ELSE StrDecimal(body)
  IN  IF t = <<>> THEN Num(0)
      ELSE IF signed /\ t[1] = "-" THEN Neg(v)
      ELSE v

(***************************************************************************)
(* main: state                                                             *)
(***************************************************************************)
VARIABLES
  pc,          \* position of main / the process
  argv,        \* process.argv.slice(2): argument name -> its value string
  lang,        \* "en" | "tr"
  inputs,      \* <<>> before line 292, then <<the Inputs record>>
  promptIdx,   \* index of the parameter prompt being asked
  answers,     \* accepted prompt answers: field -> string
  msg,         \* validation message shown by the current prompt
  asked,       \* prompts issued so far, in order
  out,         \* standard output, in order
  err,         \* standard error, in order
  calls,       \* arguments of the calc invocations, in order
  result,      \* <<>> or <<the Results of the last calc call>>
  exc,         \* <<>> or <<the exception that escaped main>>
  exitCode,    \* <<>> while running, then <<code>>
  cancelledAt  \* which prompt the user cancelled, "none" if none

vars == <<pc, argv, lang, inputs, promptIdx, answers, msg, asked, out, err,
          calls, result, exc, exitCode, cancelledAt>>

\* Largest number of command-line arguments explored.
MaxArgs == 2

\* The prompts array, in order.
ParamPrompts ==
  <<"widthMm", "lengthMm", "dpi", "sensorPx", "pixelPitchUm", "wdMm",
    "speedMmS", "overlap", "cameras">>

NumericFields == {ParamPrompts[i] : i \in 1..Len(ParamPrompts)}

\* Argument names: the nine numeric options, --json, and a positional "_".
ArgNames == NumericFields \cup {"json", "_"}

\* Value strings tried for each option and prompt.
Tokens(f) ==
  CASE f = "widthMm" -> {<<"1", "2", "0", "0">>, <<"0">>, <<"a", "b", "c">>}
    [] f = "lengthMm" -> {<<"6", "0", "0">>, <<"-", "5">>}
    [] f = "dpi" -> {<<"2", "5", "0">>, <<"0">>}
    [] f = "sensorPx" -> {<<"8", "1", "9", "2">>, <<"0", ".", "5">>, <<"0">>}
    [] f = "pixelPitchUm" -> {<<"7">>, InfinityChars}
    [] f = "wdMm" -> {<<"6", "0", "0">>, <<"w">>}
    [] f = "speedMmS" -> {<<"2", "0", "0">>, <<"-", "1">>}
    [] f = "overlap" -> {<<"0", ".", "1", "2">>, <<"0">>, <<"1", ".", "5">>}
    [] f = "cameras" -> {<<"0">>, <<"2">>, <<"5">>, <<"2", ".", "5">>,
                          <<"-", "3">>}
    [] f = "json" -> {<<>>, <<"f", "a", "l", "s", "e">>}
    [] OTHER -> {<<"x">>}

\* Every way to give each name of S one of the strings T[name].
RECURSIVE Assignments(_, _)
Assignments(S, T) ==
  IF S = {} THEN {<<>>}
  ELSE LET f == CHOOSE f \in S : TRUE
       IN  {(f :> t) @@ a : a \in Assignments(S \ {f}, T), t \in T[f]}

ArgvSet ==
  UNION {Assignments(S, [f \in ArgNames |-> Tokens(f)]) :
           S \in {S \in SUBSET ArgNames : Cardinality(S) <= MaxArgs}}

noFlags == DOMAIN argv = {}

\* yargs: a number option is Number(value), its default when absent.
OptionNumber(f, default) ==
  IF f \in DOMAIN argv THEN ToNumber(argv[f]) ELSE default

\* yargs: --json is true unless given the value false.
OptionJson ==
  IF "json" \in DOMAIN argv THEN argv["json"] # <<"f", "a", "l", "s", "e">>
  ELSE FALSE

InputsFromArgv ==
  [widthMm |-> OptionNumber("widthMm", Num(1200)),
   lengthMm |-> OptionNumber("lengthMm", Num(1200)),
   dpi |-> OptionNumber("dpi", Num(250)),
   sensorPx |-> OptionNumber("sensorPx", Num(8192)),
   pixelPitchUm |-> OptionNumber("pixelPitchUm", Num(7)),
   wdMm |-> OptionNumber("wdMm", Num(600)),
   speedMmS |-> OptionNumber("speedMmS", Num(200)),
   overlap |-> OptionNumber("overlap", Norm(12, 100)),
   cameras |-> OptionNumber("cameras", Num(0)),
   json |-> OptionJson]

\* The validate callback of the prompt for field f.
Validate(f, v) ==
  LET x == ToNumber(v)
  IN  CASE f = "overlap" -> ~IsNaN(x) /\ Ge(x, Num(0)) /\ Lt(x, Num(1))
        [] f = "cameras" -> ~IsNaN(x) /\ Ge(x, Num(0))
        [] OTHER -> ~IsNaN(x) /\ Gt(x, Num(0))

\* The message a failed validation returns.
ValidationMessage(f) ==
  CASE f = "overlap" -> "fraction"
    [] f = "cameras" -> "nonNegative"
    [] f = "sensorPx" -> "positiveInteger"
    [] OTHER -> "positiveNumber"

\* inputs = { ...inputs, ...numericAnswers }
MergeAnswers(inp, ans) ==
  [f \in DOMAIN inp |->
     IF f \in DOMAIN ans THEN ToNumber(ans[f]) ELSE inp[f]]

\* JSON.stringify of a number: a non-finite number becomes null.
JsonNum(x) ==
  IF IsFinite(x) THEN [null |-> FALSE, n |-> x.n, d |-> x.d]
  ELSE [null |-> TRUE, n |-> 0, d |-> 0]

JsonInputs(inp) ==
  [f \in DOMAIN inp |-> IF f = "json" THEN inp[f] ELSE JsonNum(inp[f])]

JsonResult(res) == [f \in DOMAIN res |-> JsonNum(res[f])]

\* One write to a stream.
Line(kind, l, data) == [kind |-> kind, lang |-> l, data |-> data]

JsonLine(inp, res) == Line("json", "", <<JsonInputs(inp), JsonResult(res)>>)

\* prettyTable: the inputs table shows cameras || camsRequired.
TableLine(inp, res, l) ==
  Line("table", l, <<inp, CamsUsed(inp.cameras, res.camsRequired), res>>)

CancelledChars == <<"C", "a", "n", "c", "e", "l", "l", "e", "d">>

\* String.prototype.includes
Includes(s, sub) ==
  \E i \in 1..(Len(s) - Len(sub) + 1) : SubSeq(s, i, i + Len(sub) - 1) = sub

\* Values a library call may throw: Error objects and a thrown string.
Thrown ==
  {[isError |-> TRUE, message |-> CancelledChars],
   [isError |-> TRUE, message |-> <<"x", " ">> \o CancelledChars \o <<"!">>],
   [isError |-> TRUE, message |-> <<"c", "a", "n", "c", "e", "l">>],
   [isError |-> TRUE, message |-> <<>>],
   [isError |-> FALSE, message |-> CancelledChars]}

(***************************************************************************)
(* main: actions                                                           *)
(***************************************************************************)
Init ==
  /\ pc = "start"
  /\ argv \in ArgvSet
  /\ lang = "en"
  /\ inputs = <<>>
  /\ promptIdx = 0
  /\ answers = <<>>
  /\ msg = "none"
  /\ asked = <<>>
  /\ out = <<>>
  /\ err = <<>>
  /\ calls = <<>>
  /\ result = <<>>
  /\ exc = <<>>
  /\ exitCode = <<>>
  /\ cancelledAt = "none"

\* Mutant: the test for "no argument" never succeeds.
StartNeverInteractive ==
  /\ pc = "start"
  /\ pc' = "parse"
  /\ UNCHANGED <<argv, lang, inputs, promptIdx, answers, msg, asked, out, err,
                 calls, result, exc, exitCode, cancelledAt>>

\* main is entered: with no argument the language prompt is issued.
Start ==
  /\ pc = "start"
  /\ IF noFlags
       THEN asked' = Append(asked, "lang") /\ pc' = "langPrompt"
       ELSE asked' = asked /\ pc' = "parse"
  /\ UNCHANGED <<argv, lang, inputs, promptIdx, answers, msg, out, err,
                 calls, result, exc, exitCode, cancelledAt>>

\* The language prompt resolves with the chosen entry.
LangAnswer ==
  /\ pc = "langPrompt"
  /\ \E choice \in {"English", "Turkce"} :
       lang' = IF choice = "English" THEN "en" ELSE "tr"
  /\ pc' = "parse"
  /\ UNCHANGED <<argv, inputs, promptIdx, answers, msg, asked, out, err,
                 calls, result, exc, exitCode, cancelledAt>>

\* The language prompt rejects: print the notice and return.
LangCancel ==
  /\ pc = "langPrompt"
  /\ out' = Append(out, Line("cancelled", "en", <<>>))
  /\ cancelledAt' = "lang"
  /\ pc' = "returned"
  /\ UNCHANGED <<argv, lang, inputs, promptIdx, answers, msg, asked, err,
                 calls, result, exc, exitCode>>

\* yargs parses the arguments into inputs.
ParseArgs ==
  /\ pc = "parse"
  /\ inputs' = <<InputsFromArgv>>
  /\ pc' = IF noFlags THEN "banner" ELSE "calc"
  /\ UNCHANGED <<argv, lang, promptIdx, answers, msg, asked, out, err,
                 calls, result, exc, exitCode, cancelledAt>>

\* What lines 306-307 write.
BannerLines == <<Line("clear", "", <<>>), Line("banner", lang, <<>>)>>

\* Interactive mode: clear, print the banner, issue the first prompt.
ShowBanner ==
  /\ pc = "banner"
  /\ out' = out \o BannerLines
  /\ promptIdx' = 1
  /\ asked' = Append(asked, ParamPrompts[1])
  /\ pc' = "paramPrompt"
  /\ UNCHANGED <<argv, lang, inputs, answers, msg, err, calls, result, exc,
                 exitCode, cancelledAt>>

\* The current prompt's validate callback accepts the answer: the next
\* prompt is issued, or after the last one the answers are merged.
AcceptAnswer ==
  /\ pc = "paramPrompt"
  /\ \E v \in Tokens(ParamPrompts[promptIdx]) :
       /\ Validate(ParamPrompts[promptIdx], v)
       /\ answers' = (ParamPrompts[promptIdx] :> v) @@ answers
  /\ msg' = "none"
  /\ IF promptIdx < Len(ParamPrompts)
       THEN /\ promptIdx' = promptIdx + 1
            /\ asked' = Append(asked, ParamPrompts[promptIdx + 1])
            /\ UNCHANGED <<inputs, pc>>
       ELSE /\ inputs' = <<MergeAnswers(inputs[1], answers')>>
            /\ pc' = "calc"
            /\ UNCHANGED <<promptIdx, asked>>
  /\ UNCHANGED <<argv, lang, out, err, calls, result, exc, exitCode,
                 cancelledAt>>

\* The validate callback returns its message: the prompt stays.
RejectAnswer ==
  /\ pc = "paramPrompt"
  /\ \E v \in Tokens(ParamPrompts[promptIdx]) :
       ~Validate(ParamPrompts[promptIdx], v)
  /\ msg' = ValidationMessage(ParamPrompts[promptIdx])
  /\ UNCHANGED <<pc, argv, lang, inputs, promptIdx, answers, asked, out, err,
                 calls, result, exc, exitCode, cancelledAt>>

\* Mutant: the catch block prints the notice but does not return.
ParamCancelFallsThrough ==
  /\ pc = "paramPrompt"
  /\ out' = Append(out, Line("cancelled", lang, <<>>))
  /\ cancelledAt' = "params"
  /\ pc' = "calc"
  /\ UNCHANGED <<argv, lang, inputs, promptIdx, answers, msg, asked, err,
                 calls, result, exc, exitCode>>

\* The parameter prompts reject: print the notice and return.
ParamCancel ==
  /\ pc = "paramPrompt"
  /\ out' = Append(out, Line("cancelled", lang, <<>>))
  /\ cancelledAt' = "params"
  /\ pc' = "returned"
  /\ UNCHANGED <<argv, lang, inputs, promptIdx, answers, msg, asked, err,
                 calls, result, exc, exitCode>>

\* const result = calc(inputs)
CallCalc ==
  /\ pc = "calc"
  /\ calls' = Append(calls, inputs[1])
  /\ result' = <<calc(inputs[1])>>
  /\ pc' = "output"
  /\ UNCHANGED <<argv, lang, inputs, promptIdx, answers, msg, asked, out,
                 err, exc, exitCode, cancelledAt>>

\* What lines 397-404 write: the JSON object only, or (clear,) banner, table.
OutputLines ==
  IF inputs[1].json THEN <<JsonLine(inputs[1], result[1])>>
  ELSE (IF noFlags THEN <<Line("clear", "", <<>>)>> ELSE <<>>)
       \o <<Line("banner", lang, <<>>), TableLine(inputs[1], result[1], lang)>>

\* Mutant: the banner is printed before the --json test.
OutputBannerFirst ==
  /\ pc = "output"
  /\ out' =
       IF inputs[1].json
         THEN out \o <<Line("banner", lang, <<>>),
                       JsonLine(inputs[1], result[1])>>
         ELSE out \o <<Line("banner", lang, <<>>),
                       TableLine(inputs[1], result[1], lang)>>
  /\ pc' = "returned"
  /\ UNCHANGED <<argv, lang, inputs, promptIdx, answers, msg, asked, err,
                 calls, result, exc, exitCode, cancelledAt>>

\* JSON only, or (clear,) banner and table.
Output ==
  /\ pc = "output"
  /\ out' = out \o OutputLines
  /\ pc' = "returned"
  /\ UNCHANGED <<argv, lang, inputs, promptIdx, answers, msg, asked, err,
                 calls, result, exc, exitCode, cancelledAt>>

\* main's promise resolves: the process ends with code 0.
Return ==
  /\ pc = "returned"
  /\ exitCode' = <<0>>
  /\ pc' = "exited"
  /\ UNCHANGED <<argv, lang, inputs, promptIdx, answers, msg, asked, out,
                 err, calls, result, exc, cancelledAt>>

\* Positions outside the try blocks at which a library call may throw.
ThrowPoints == {"parse", "banner", "output"}

\* The writes the step at the current position performs, in order.
StepLines ==
  CASE pc = "banner" -> BannerLines
    [] pc = "output" -> OutputLines
    [] OTHER -> <<>>

\* A call outside the try blocks throws after some, not all, of the step's
\* writes: main's promise rejects.
Throw ==
  /\ pc \in ThrowPoints
  /\ \E e \in Thrown : exc' = <<e>>
  /\ \E k \in 0..Len(StepLines) :
       /\ k = 0 \/ k < Len(StepLines)
       /\ out' = out \o SubSeq(StepLines, 1, k)
  /\ pc' = "rejected"
  /\ UNCHANGED <<argv, lang, inputs, promptIdx, answers, msg, asked, err,
                 calls, result, exitCode, cancelledAt>>

\* Mutant: the handler tests the message without instanceof Error.
CatchHandlerAnyCancelled ==
  /\ pc = "rejected"
  /\ IF Includes(exc[1].message, CancelledChars)
       THEN exitCode' = <<0>> /\ err' = err
       ELSE exitCode' = <<1>> /\ err' = Append(err, Line("Error:", "", exc))
  /\ pc' = "exited"
  /\ UNCHANGED <<argv, lang, inputs, promptIdx, answers, msg, asked, out,
                 calls, result, exc, cancelledAt>>

\* main().catch
CatchHandler ==
  /\ pc = "rejected"
  /\ IF exc[1].isError /\ Includes(exc[1].message, CancelledChars)
       THEN exitCode' = <<0>> /\ err' = err
       ELSE exitCode' = <<1>> /\ err' = Append(err, Line("Error:", "", exc))
  /\ pc' = "exited"
  /\ UNCHANGED <<argv, lang, inputs, promptIdx, answers, msg, asked, out,
                 calls, result, exc, cancelledAt>>

Next ==
  \/ Start
  \/ LangAnswer
  \/ LangCancel
  \/ ParseArgs
  \/ ShowBanner
  \/ AcceptAnswer
  \/ RejectAnswer
  \/ ParamCancel
  \/ CallCalc
  \/ Output
  \/ Return
  \/ Throw
  \/ CatchHandler

Spec == Init /\ [][Next]_vars

(***************************************************************************)
(* calc as a function of its inputs: every numeric option is supplied on   *)
(* the command line, so main passes the parsed values straight to calc.    *)
(***************************************************************************)
\* Value strings of the grid of calc inputs (valid and invalid ones).
CalcTokens(f) ==
  CASE f = "widthMm" -> {<<"2", "5", "4">>, <<"1", "2", "0", "0">>,
                          <<"2", "4", "0", "0">>, <<"5", "0", "0", "0">>}
    [] f = "lengthMm" -> {<<"1", "2", "0", "0">>}
    [] f = "dpi" -> {<<"2", "5", "0">>, <<"6", "0", "0">>, <<"0">>}
    [] f = "sensorPx" -> {<<"8", "1", "9", "2">>, <<"4", "0", "9", "6">>,
                           <<"1", "0", "0", "0">>}
    [] f = "pixelPitchUm" -> {<<"7">>, <<"3", ".", "5">>}
    [] f = "wdMm" -> {<<"6", "0", "0">>, <<"3", "0", "0">>}
    [] f = "speedMmS" -> {<<"2", "0", "0">>}
    [] f = "overlap" -> {<<"0">>, <<"0", ".", "1", "2">>, <<"0", ".", "5">>,
                          <<"1">>}
    [] OTHER -> {<<"0">>, <<"1">>, <<"2">>, <<"7">>, <<"-", "3">>}

InitCalc ==
  /\ pc = "start"
  /\ argv \in Assignments(NumericFields, [f \in NumericFields |-> CalcTokens(f)])
  /\ lang = "en"
  /\ inputs = <<>>
  /\ promptIdx = 0
  /\ answers = <<>>
  /\ msg = "none"
  /\ asked = <<>>
  /\ out = <<>>
  /\ err = <<>>
  /\ calls = <<>>
  /\ result = <<>>
  /\ exc = <<>>
  /\ exitCode = <<>>
  /\ cancelledAt = "none"

NextCalc ==
  \/ Start
  \/ ParseArgs
  \/ CallCalc
  \/ Output
  \/ Return

SpecCalc == InitCalc /\ [][NextCalc]_vars

(***************************************************************************)
(* Natural numbers of any size: little-endian digits in base 2^15 without  *)
(* a leading zero digit; <<>> is 0.  They carry the 53-bit significands    *)
(* of the IEEE-754 binary64 values that JavaScript numbers are.            *)
(***************************************************************************)
Limb == 2^15

RECURSIVE BTrim(_)
BTrim(a) ==
  IF a # <<>> /\ a[Len(a)] = 0 THEN BTrim(SubSeq(a, 1, Len(a) - 1)) ELSE a

RECURSIVE BOf(_)
BOf(i) == IF i = 0 THEN <<>> ELSE <<i % Limb>> \o BOf(i \div Limb)

LimbAt(a, i) == IF i <= Len(a) THEN a[i] ELSE 0

RECURSIVE BAddFrom(_, _, _, _)
BAddFrom(a, b, i, carry) ==
  IF i > Len(a) /\ i > Len(b) THEN (IF carry = 0 THEN <<>> ELSE <<carry>>)
  ELSE LET s == LimbAt(a, i) + LimbAt(b, i) + carry
       IN  <<s % Limb>> \o BAddFrom(a, b, i + 1, s \div Limb)

BAdd(a, b) == BAddFrom(a, b, 1, 0)

RECURSIVE BSubFrom(_, _, _, _)
BSubFrom(a, b, i, borrow) ==
  IF i > Len(a) THEN <<>>
  ELSE LET s == a[i] - LimbAt(b, i) - borrow
       IN  <<s % Limb>> \o BSubFrom(a, b, i + 1, IF s < 0 THEN 1 ELSE 0)

\* a - b for a >= b
BSub(a, b) == BTrim(BSubFrom(a, b, 1, 0))

RECURSIVE BCmpFrom(_, _, _)
BCmpFrom(a, b, i) ==
  IF i = 0 THEN 0
  ELSE IF a[i] # b[i] THEN (IF a[i] < b[i] THEN -1 ELSE 1)
  ELSE BCmpFrom(a, b, i - 1)

\* -1, 0 or 1 as a < b, a = b or a > b
BCmp(a, b) ==
  IF Len(a) # Len(b) THEN (IF Len(a) < Len(b) THEN -1 ELSE 1)
  ELSE BCmpFrom(a, b, Len(a))

RECURSIVE BMulSmallFrom(_, _, _, _)
BMulSmallFrom(a, k, i, carry) ==
  IF i > Len(a) THEN (IF carry = 0 THEN <<>> ELSE <<carry>>)
  ELSE LET s == a[i] * k + carry
       IN  <<s % Limb>> \o BMulSmallFrom(a, k, i + 1, s \div Limb)

\* a * k for 0 <= k < 2^15
BMulSmall(a, k) == IF k = 0 THEN <<>> ELSE BMulSmallFrom(a, k, 1, 0)

RECURSIVE BMul(_, _)
BMul(a, b) ==
  IF a = <<>> \/ b = <<>> THEN <<>>
  ELSE LET rest == BMul(a, Tail(b))
       IN  BAdd(BMulSmall(a, b[1]),
                IF rest = <<>> THEN <<>> ELSE <<0>> \o rest)

RECURSIVE BDivSmallFrom(_, _, _, _)
BDivSmallFrom(a, k, i, r) ==
  IF i = 0 THEN [q |-> <<>>, r |-> r]
  ELSE LET x == r * Limb + a[i]
           t == BDivSmallFrom(a, k, i - 1, x % k)
       IN  [q |-> Append(t.q, x \div k), r |-> t.r]

TrimQuotient(t) == [q |-> BTrim(t.q), r |-> t.r]

\* Quotient and remainder of a by k, 0 < k <= 2^15
BDivSmall(a, k) == TrimQuotient(BDivSmallFrom(a, k, Len(a), 0))

\* a * 2^s
BShl(a, s) ==
  IF a = <<>> THEN <<>>
  ELSE [i \in 1..(s \div 15) |-> 0] \o BMulSmall(a, 2^(s % 15))

\* floor(a / 2^s)
BShr(a, s) ==
  IF s \div 15 >= Len(a) THEN <<>>
  ELSE BDivSmall(SubSeq(a, (s \div 15) + 1, Len(a)), 2^(s % 15)).q

RECURSIVE IntBits(_)
IntBits(i) == IF i = 0 THEN 0 ELSE 1 + IntBits(i \div 2)

\* Number of binary digits of a
BitLen(a) == IF a = <<>> THEN 0 ELSE 15 * (Len(a) - 1) + IntBits(a[Len(a)])

BOdd(a) == a # <<>> /\ a[1] % 2 = 1

RECURSIVE BitsValue(_)
BitsValue(bits) ==
  IF bits = <<>> THEN 0
  ELSE 2 * BitsValue(SubSeq(bits, 1, Len(bits) - 1)) + bits[Len(bits)]

RECURSIVE LimbsOfBits(_)
LimbsOfBits(bits) ==
  IF Len(bits) <= 15 THEN <<BitsValue(bits)>>
  ELSE <<BitsValue(SubSeq(bits, Len(bits) - 14, Len(bits)))>>
         \o LimbsOfBits(SubSeq(bits, 1, Len(bits) - 15))

\* The number whose binary digits are bits, most significant first
BFromBits(bits) == BTrim(LimbsOfBits(bits))

(***************************************************************************)
(* IEEE-754 binary64 arithmetic, round to nearest, ties to even.  A value  *)
(* is [m, e], standing for m * 2^e with 2^52 <= m < 2^53, or m = <<>> for  *)
(* 0.  Only the non-negative finite normal values are represented: calc    *)
(* computes no others from inputs that meet the data model's constraints   *)
(* and have the magnitudes of Tokens64.                                    *)
(***************************************************************************)
DZero == [m |-> <<>>, e |-> 0]

\* One step of the long division of s.rem by y: the next binary digit of
\* the quotient is appended, and twice what is left is kept.
QuotientDigit(s, y, ge) ==
  [bits |-> Append(s.bits, IF ge THEN 1 ELSE 0),
   rem |-> IF ge THEN BShl(BSub(s.rem, y), 1) ELSE BShl(s.rem, 1)]

\* n more binary digits of the quotient; all are 0 once nothing is left.
RECURSIVE QuotientBits(_, _, _)
QuotientBits(s, y, n) ==
  IF n = 0 THEN s
  ELSE IF s.rem = <<>>
    THEN [bits |-> s.bits \o [i \in 1..n |-> 0], rem |-> <<>>]
  ELSE QuotientBits(QuotientDigit(s, y, BCmp(s.rem, y) >= 0), y, n - 1)

\* The first 56 binary digits of x / y, for x < 2y, the integer digit
\* first, and what is left of x.
Quotient56(x, y) == QuotientBits([bits |-> <<>>, rem |-> x], y, 56)

\* m * 2^ex, with m = 2^53 renormalised.
Renormalised(m, ex) ==
  IF BitLen(m) = 54 THEN [m |-> BShr(m, 1), e |-> ex + 1]
  ELSE [m |-> m, e |-> ex]

\* Round to nearest, ties to even: m is the first 53 digits, guard the
\* next one, sticky whether anything nonzero follows.
RoundedUp(m, guard, sticky, ex) ==
  Renormalised(IF guard = 1 /\ (sticky \/ BOdd(m)) THEN BAdd(m, <<1>>) ELSE m,
               ex)

\* The digits t of a quotient in [1/2, 2) rounded to 53: they start at the
\* first or at the second digit.
RoundedFrom(t, lead, ex) ==
  RoundedUp(BFromBits(SubSeq(t.bits, lead, lead + 52)),
            t.bits[lead + 53],
            t.rem # <<>> \/ \E i \in (lead + 54)..56 : t.bits[i] = 1,
            ex - 51 - lead)

RoundedBits(t, ex) == RoundedFrom(t, IF t.bits[1] = 1 THEN 1 ELSE 2, ex)

\* x and y brought to the same number of binary digits, dl = the difference.
RoundedScaled(x, y, ex, dl) ==
  RoundedBits(Quotient56(IF dl < 0 THEN BShl(x, -dl) ELSE x,
                         IF dl > 0 THEN BShl(y, dl) ELSE y),
              ex + dl)

\* The binary64 value nearest to (x / y) * 2^e, ties to even.
RoundQ(x, y, e) ==
  IF x = <<>> THEN DZero ELSE RoundedScaled(x, y, e, BitLen(x) - BitLen(y))

\* Number(v) for a decimal string whose exact value is the fraction r >= 0
DOf(r) == RoundQ(BOf(r.n), BOf(r.d), 0)

DMul(a, b) == RoundQ(BMul(a.m, b.m), <<1>>, a.e + b.e)

\* a / b for b # 0
DDiv(a, b) == RoundQ(a.m, b.m, a.e - b.e)

\* Significand of a when written with exponent e <= a.e
Aligned(a, e) == BShl(a.m, a.e - e)

MinExp(a, b) ==
  IF a.m = <<>> THEN b.e
  ELSE IF b.m = <<>> THEN a.e
  ELSE IF a.e < b.e THEN a.e ELSE b.e

DAdd(a, b) ==
  LET e == MinExp(a, b)
  IN  RoundQ(BAdd(Aligned(a, e), Aligned(b, e)), <<1>>, e)

\* -1, 0 or 1 as a < b, a = b or a > b
DCmp(a, b) ==
  LET e == MinExp(a, b) IN BCmp(Aligned(a, e), Aligned(b, e))

\* a - b for a >= b
DSub(a, b) ==
  LET e == MinExp(a, b)
  IN  RoundQ(BSub(Aligned(a, e), Aligned(b, e)), <<1>>, e)

\* Math.ceil
DCeil(a) ==
  IF a.m = <<>> \/ a.e >= 0 THEN a
  ELSE LET q == BShr(a.m, -a.e)
           n == IF BShl(q, -a.e) = a.m THEN q ELSE BAdd(q, <<1>>)
       IN  RoundQ(n, <<1>>, 0)

\* JavaScript truthiness: false for 0
DTruthy(a) == a.m # <<>>

DNum(i) == DOf(Num(i))

\* The decimal digits of n
RECURSIVE BDecimal(_)
BDecimal(n) ==
  IF n = <<>> THEN <<>>
  ELSE LET t == BDivSmall(n, 10) IN Append(BDecimal(t.q), DigitChars[t.r + 1])

\* floor(p * 2^e + 1/2)
NearestInteger(p, e) ==
  IF e >= 0 THEN BShl(p, e)
  ELSE BShr(BAdd(BShl(p, 1), BShl(<<1>>, -e)), 1 - e)

\* The digits ds with a point before the last k of them.
WithPoint(ds, k) ==
  IF k = 0 THEN ds
  ELSE SubSeq(ds, 1, Len(ds) - k) \o <<".">>
         \o SubSeq(ds, Len(ds) - k + 1, Len(ds))

\* At least k + 1 digits: zeros in front.
ZeroPadded(ds, k) == [i \in 1..(k + 1 - Len(ds)) |-> "0"] \o ds

\* Number.prototype.toFixed(k), for values below 10^21: the decimal digits
\* of the integer nearest to a * 10^k, the larger one on a tie, with a
\* point before the last k of them.
ToFixed(a, k) ==
  WithPoint(ZeroPadded(BDecimal(NearestInteger(BMul(a.m, BOf(10^k)), a.e)), k),
            k)

(***************************************************************************)
(* calc and prettyTable on binary64 values                                 *)
(***************************************************************************)
mmPerInch64 == DOf(mmPerInch)

PixelSizeObjMm64(dpi) == DDiv(mmPerInch64, dpi)

\* Mutant: the margin taken off instead of added.
PxNeededWithMargin64Deflated(pxNeededAcross, overlap) ==
  DMul(pxNeededAcross, DSub(DNum(1), overlap))

PxNeededWithMargin64(pxNeededAcross, overlap) ==
  DMul(pxNeededAcross, DAdd(DNum(1), overlap))

\* Mutant: the divisor without the overlap shrink.
CamsRequired64NoShrink(pxNeededWithMargin, sensorPx, overlap) ==
  DCeil(DDiv(pxNeededWithMargin, sensorPx))

CamsRequired64(pxNeededWithMargin, sensorPx, overlap) ==
  DCeil(DDiv(pxNeededWithMargin, DMul(sensorPx, DSub(DNum(1), overlap))))

\* Mutant: the inch taken as 25 mm.
EqDpi64RoundInch(pixelSizeObjMm) == DDiv(DNum(25), pixelSizeObjMm)

EqDpi64(pixelSizeObjMm) == DDiv(mmPerInch64, pixelSizeObjMm)

calc64(inp) ==
  LET pixelSizeObjMm == PixelSizeObjMm64(inp.dpi)
      pxNeededAcross == DDiv(inp.widthMm, pixelSizeObjMm)
      pxNeededWithMargin == PxNeededWithMargin64(pxNeededAcross, inp.overlap)
      camsRequired ==
        CamsRequired64(pxNeededWithMargin, inp.sensorPx, inp.overlap)
      camsUsed == IF DTruthy(inp.cameras) THEN inp.cameras ELSE camsRequired
      fovPerCamMm ==
        DDiv(DMul(inp.widthMm, DAdd(DNum(1), inp.overlap)), camsUsed)
      sensorLengthMm ==
        DMul(inp.sensorPx, DDiv(inp.pixelPitchUm, DNum(1000)))
      magnification == DDiv(sensorLengthMm, fovPerCamMm)
      focalLengthMm ==
        DDiv(DMul(magnification, inp.wdMm), DAdd(DNum(1), magnification))
      linePitchMm == pixelSizeObjMm
  IN  [pixelSizeObjMm |-> pixelSizeObjMm,
       eqDpi |-> EqDpi64(pixelSizeObjMm),
       pxNeededAcross |-> pxNeededAcross,
       pxNeededWithMargin |-> pxNeededWithMargin,
       usablePxPerCam |-> inp.sensorPx,
       camsRequired |-> camsRequired,
       fovPerCamMm |-> fovPerCamMm,
       sensorLengthMm |-> sensorLengthMm,
       magnification |-> magnification,
       focalLengthMm |-> focalLengthMm,
       linePitchMm |-> linePitchMm,
       linesNeeded |-> DDiv(inp.lengthMm, linePitchMm),
       lineRateHz |-> DDiv(inp.speedMmS, linePitchMm)]

\* The binary64 values Number() gives for the parsed options.
Inputs64(inp) == [f \in NumericFields |-> DOf(inp[f])]

\* The value cells of prettyTable's two tables; a cell the code passes as
\* a number holds the number.
prettyTable(inp, res) ==
  [widthMm |-> ToFixed(inp.widthMm, 1),
   lengthMm |-> ToFixed(inp.lengthMm, 1),
   dpi |-> ToFixed(inp.dpi, 1),
   sensorPx |-> inp.sensorPx,
   pixelPitchUm |-> ToFixed(inp.pixelPitchUm, 2),
   wdMm |-> ToFixed(inp.wdMm, 1),
   speedMmS |-> ToFixed(inp.speedMmS, 1),
   overlap |-> ToFixed(DMul(inp.overlap, DNum(100)), 1),
   plannedCams |->
     IF DTruthy(inp.cameras) THEN inp.cameras ELSE res.camsRequired,
   pixelSizeObjMm |-> ToFixed(res.pixelSizeObjMm, 4),
   eqDpi |-> ToFixed(res.eqDpi, 1),
   pxNeededAcross |-> ToFixed(res.pxNeededAcross, 0),
   pxNeededWithMargin |-> ToFixed(res.pxNeededWithMargin, 0),
   camsRequired |-> res.camsRequired,
   fovPerCamMm |-> ToFixed(res.fovPerCamMm, 1),
   sensorLengthMm |-> ToFixed(res.sensorLengthMm, 3),
   magnification |-> ToFixed(res.magnification, 4),
   focalLengthMm |-> ToFixed(res.focalLengthMm, 1),
   linePitchMm |-> ToFixed(res.linePitchMm, 3),
   linesNeeded |-> ToFixed(res.linesNeeded, 0),
   lineRateHz |-> ToFixed(res.lineRateHz, 2)]

\* const res = calc(inputs), on the binary64 values of the inputs.
CallCalc64 ==
  /\ pc = "calc"
  /\ calls' = Append(calls, inputs[1])
  /\ result' = <<calc64(Inputs64(inputs[1]))>>
  /\ pc' = "output"
  /\ UNCHANGED <<argv, lang, inputs, promptIdx, answers, msg, asked, out,
                 err, exc, exitCode, cancelledAt>>

\* What lines 397-404 write, the table with the strings toFixed gives.
OutputLines64 ==
  IF inputs[1].json
    THEN <<Line("json", "", <<Inputs64(inputs[1]), result[1]>>)>>
    ELSE (IF noFlags THEN <<Line("clear", "", <<>>)>> ELSE <<>>)
         \o <<Line("banner", lang, <<>>),
              Line("table", lang,
                   prettyTable(Inputs64(inputs[1]), result[1]))>>

Output64 ==
  /\ pc = "output"
  /\ out' = out \o OutputLines64
  /\ pc' = "returned"
  /\ UNCHANGED <<argv, lang, inputs, promptIdx, answers, msg, asked, err,
                 calls, result, exc, exitCode, cancelledAt>>

\* Flag values for the runs on binary64 values: all meet the data model's
\* constraints.
Tokens64(f) ==
  CASE f = "widthMm" -> {<<"1", "2", "0", "0">>, <<"1", "0", "0", "0">>,
                          <<"8", "1", "9", ".", "2">>}
    [] f = "lengthMm" -> {<<"1", "2", "0", "0">>}
    [] f = "dpi" -> {<<"2", "5", "0">>, <<"2", "5", "4">>, <<"1", "5">>,
                      <<"6", "0", "0">>}
    [] f = "sensorPx" -> {<<"8", "1", "9", "2">>, <<"4", "0", "9", "6">>,
                           <<"1", "0", "0", "0">>}
    [] f = "pixelPitchUm" -> {<<"7">>}
    [] f = "wdMm" -> {<<"6", "0", "0">>}
    [] f = "speedMmS" -> {<<"2", "0", "0">>}
    [] f = "overlap" -> {<<"0", ".", "1", "2">>, <<"0">>, <<"0", ".", "2">>}
    [] OTHER -> {<<"0">>, <<"2">>, <<"3">>}

Init64 ==
  /\ pc = "start"
  /\ argv \in Assignments(NumericFields, [f \in NumericFields |-> Tokens64(f)])
  /\ lang = "en"
  /\ inputs = <<>>
  /\ promptIdx = 0
  /\ answers = <<>>
  /\ msg = "none"
  /\ asked = <<>>
  /\ out = <<>>
  /\ err = <<>>
  /\ calls = <<>>
  /\ result = <<>>
  /\ exc = <<>>
  /\ exitCode = <<>>
  /\ cancelledAt = "none"

Next64 ==
  \/ Start
  \/ ParseArgs
  \/ CallCalc64
  \/ Output64
  \/ Return

Spec64 == Init64 /\ [][Next64]_vars

(***************************************************************************)
(* The data model's constraints on Inputs                                  *)
(***************************************************************************)
FieldOk(f, x) ==
  CASE f = "sensorPx" -> IsFinite(x) /\ IsInteger(x) /\ x.n > 0
    [] f = "overlap" -> IsFinite(x) /\ Ge(x, Num(0)) /\ Lt(x, Num(1))
    [] f = "cameras" -> IsFinite(x) /\ IsInteger(x) /\ x.n >= 0
    [] OTHER -> IsFinite(x) /\ x.n > 0

ValidInputs(inp) == \A f \in NumericFields : FieldOk(f, inp[f])

\* calc has been called; its argument and its result.
Called == Len(calls) = 1

Arg == calls[1]

Res == result[1]

(***************************************************************************)
(* Properties                                                              *)
(***************************************************************************)
\* C1: on every path of main, calc is invoked only with an Inputs value
\* that satisfies all constraints of the data model.
CalcArgsValid == Called => ValidInputs(Arg)

\* C2: every answer a parameter prompt has accepted is a finite number
\* meeting its field's data-model constraint (sensorPx a positive integer,
\* cameras an integer >= 0, 0 <= overlap < 1).
AcceptedAnswersValid ==
  \A f \in DOMAIN answers : FieldOk(f, ToNumber(answers[f]))

\* C3: for valid inputs camsRequired is an integer c with q <= c < q + 1,
\* q = pxNeededWithMargin / (sensorPx * (1 - overlap)).
CeilingProperty ==
  (Called /\ ValidInputs(Arg)) =>
    LET q == Div(Res.pxNeededWithMargin,
                 Mul(Arg.sensorPx, Sub(Num(1), Arg.overlap)))
        c == Res.camsRequired
    IN  IsInteger(c) /\ Le(q, c) /\ Lt(c, Add(q, Num(1)))

\* C3 witness: a valid call whose quotient is fractional and more than a
\* half below its ceiling (floor and round-to-nearest would both differ).
CeilingWitness ==
  /\ Called
  /\ ValidInputs(Arg)
  /\ LET q == Div(Res.pxNeededWithMargin,
                  Mul(Arg.sensorPx, Sub(Num(1), Arg.overlap)))
     IN  ~IsInteger(q) /\ Gt(Sub(Res.camsRequired, q), Norm(1, 2))

\* C4: whenever cameras > 0, fovPerCamMm = widthMm * (1 + overlap) / cameras,
\* and magnification and focalLengthMm follow from that value.
OverrideProperty ==
  (Called /\ Gt(Arg.cameras, Num(0))) =>
    LET fov == Div(Mul(Arg.widthMm, Add(Num(1), Arg.overlap)), Arg.cameras)
        m == Div(Mul(Arg.sensorPx, Div(Arg.pixelPitchUm, Num(1000))), fov)
    IN  /\ Res.fovPerCamMm = fov
        /\ Res.magnification = m
        /\ Res.focalLengthMm = Div(Mul(m, Arg.wdMm), Add(Num(1), m))

\* C4 witness: a call with valid inputs whose cameras is positive and
\* smaller than camsRequired.
OverrideWitness ==
  /\ Called
  /\ ValidInputs(Arg)
  /\ Gt(Arg.cameras, Num(0))
  /\ Lt(Arg.cameras, Res.camsRequired)

\* C5: for every cameras value reaching calc that is not > 0, the camera
\* count used is camsRequired: fovPerCamMm = widthMm*(1+overlap)/camsRequired.
FallbackWhenNotPositive ==
  (Called /\ ~Gt(Arg.cameras, Num(0))) =>
    Res.fovPerCamMm =
      Div(Mul(Arg.widthMm, Add(Num(1), Arg.overlap)), Res.camsRequired)

\* --json was given on the command line (without a value).
JsonFlagSet == "json" \in DOMAIN argv /\ argv["json"] = <<>>

\* C6: with --json set, standard output holds nothing but the JSON object
\* of the inputs passed to calc and calc's result, no prompt is issued, and
\* a normal return has written it.
JsonOnly ==
  JsonFlagSet =>
    /\ asked = <<>>
    /\ out = <<>> \/ (Called /\ out = <<JsonLine(Arg, Res)>>)
    /\ (pc \in {"returned", "exited"} /\ exc = <<>>) => out # <<>>

\* C6 witness: a --json run that has ended after writing the object.
JsonOnlyWitness ==
  /\ JsonFlagSet
  /\ pc = "exited"
  /\ exitCode = <<0>>
  /\ Called
  /\ out = <<JsonLine(Arg, Res)>>

\* C7: once a prompt is cancelled, main has printed the cancelled notice
\* last, returns with exit code 0, calc is never invoked and no table or
\* JSON is written.
CancelShortCircuits ==
  cancelledAt # "none" =>
    /\ calls = <<>>
    /\ result = <<>>
    /\ pc \in {"returned", "exited"}
    /\ exc = <<>>
    /\ err = <<>>
    /\ pc = "exited" => exitCode = <<0>>
    /\ out # <<>>
    /\ out[Len(out)].kind = "cancelled"
    /\ \A i \in 1..Len(out) : out[i].kind \notin {"json", "table"}

\* C7 witness: the parameter prompts were cancelled after some answers were
\* accepted, and the process has ended.
CancelWitness ==
  /\ cancelledAt = "params"
  /\ DOMAIN answers # {}
  /\ pc = "exited"

\* C8 as stated: every exception that escapes main is reported on the
\* error stream and the process ends with a non-zero exit code.
EveryEscapeReported ==
  (pc = "exited" /\ exc # <<>>) => (exitCode # <<0>> /\ err # <<>>)

\* C8 amended: an escaped exception is reported on the error stream with
\* exit code 1, unless it is an Error whose message contains "Cancelled",
\* which ends the process silently with exit code 0.
EscapeReportedUnlessCancelled ==
  (pc = "exited" /\ exc # <<>>) =>
    IF exc[1].isError
       /\ \E i \in 1..(Len(exc[1].message) - 8) :
            SubSeq(exc[1].message, i, i + 8) = CancelledChars
      THEN exitCode = <<0>> /\ err = <<>>
      ELSE exitCode = <<1>> /\ err = <<Line("Error:", "", exc)>>

\* C8 witness: a thrown string "Cancelled" (not an Error) escaped main and
\* was reported with exit code 1.
EscapeWitness ==
  /\ pc = "exited"
  /\ exc # <<>>
  /\ ~exc[1].isError
  /\ exc[1].message = CancelledChars
  /\ exitCode = <<1>>

\* C9: main prompts exactly when no argument is given: the language first,
\* then the nine parameters in order, calc only after all are answered;
\* with an argument no prompt is ever issued.
InteractiveIffNoArgs ==
  LET order == <<"lang", "widthMm", "lengthMm", "dpi", "sensorPx",
                 "pixelPitchUm", "wdMm", "speedMmS", "overlap", "cameras">>
  IN  IF DOMAIN argv # {} THEN asked = <<>>
      ELSE /\ Len(asked) <= Len(order)
           /\ asked = SubSeq(order, 1, Len(asked))
           /\ pc # "start" => asked # <<>>
           /\ Called =>
                /\ asked = order
                /\ DOMAIN answers = {order[i] : i \in 2..Len(order)}

\* C9 witness: an interactive run in which calc has been called.
InteractiveWitness == DOMAIN argv = {} /\ Called /\ Len(asked) = 10

\* C10: of two valid inputs that differ only in widthMm, the one with the
\* larger widthMm has pxNeededAcross, pxNeededWithMargin and camsRequired
\* each >= those of the other.
WidthMonotone ==
  (Called /\ ValidInputs(Arg)) =>
    \A t \in CalcTokens("widthMm") :
      LET w2 == ToNumber(t)
          r2 == calc([Arg EXCEPT !.widthMm = w2])
      IN  (FieldOk("widthMm", w2) /\ Ge(w2, Arg.widthMm)) =>
            /\ Ge(r2.pxNeededAcross, Res.pxNeededAcross)
            /\ Ge(r2.pxNeededWithMargin, Res.pxNeededWithMargin)
            /\ Ge(r2.camsRequired, Res.camsRequired)

\* C10 witness: a valid call for which a larger width of the grid needs
\* strictly more cameras.
WidthMonotoneWitness ==
  /\ Called
  /\ ValidInputs(Arg)
  /\ \E t \in CalcTokens("widthMm") :
       /\ Gt(ToNumber(t), Arg.widthMm)
       /\ Gt(calc([Arg EXCEPT !.widthMm = ToNumber(t)]).camsRequired,
             Res.camsRequired)

\* C11: for valid inputs with overlap = 0, pxNeededWithMargin equals
\* pxNeededAcross and camsRequired is the ceiling of pxNeededAcross / sensorPx.
ZeroOverlapExact ==
  (Called /\ ValidInputs(Arg) /\ Arg.overlap = Num(0)) =>
    LET x == Div(Res.pxNeededAcross, Arg.sensorPx)
        c == Res.camsRequired
    IN  /\ Res.pxNeededWithMargin = Res.pxNeededAcross
        /\ IsInteger(c)
        /\ Le(x, c)
        /\ Lt(Sub(c, Num(1)), x)

\* C11 witness: a valid call with overlap = 0 whose quotient
\* pxNeededAcross / sensorPx is fractional, with fraction below one half.
ZeroOverlapWitness ==
  /\ Called
  /\ ValidInputs(Arg)
  /\ Arg.overlap = Num(0)
  /\ LET x == Div(Res.pxNeededAcross, Arg.sensorPx)
     IN  ~IsInteger(x) /\ Gt(Sub(Res.camsRequired, x), Norm(1, 2))

\* The result fields that do not depend on the camera count used.
FrameFields ==
  {"camsRequired", "pixelSizeObjMm", "eqDpi", "pxNeededAcross",
   "pxNeededWithMargin", "usablePxPerCam", "sensorLengthMm", "linePitchMm",
   "linesNeeded", "lineRateHz"}

\* C12: changing only the cameras input leaves camsRequired and every
\* result field other than fovPerCamMm, magnification and focalLengthMm
\* unchanged.
CamerasFrame ==
  Called =>
    \A t \in CalcTokens("cameras") :
      LET r2 == calc([Arg EXCEPT !.cameras = ToNumber(t)])
      IN  \A f \in FrameFields : r2[f] = Res[f]

\* C12 witness: a valid call whose cameras overrides a different
\* camsRequired, while another cameras value gives another fovPerCamMm.
CamerasFrameWitness ==
  /\ Called
  /\ ValidInputs(Arg)
  /\ Gt(Arg.cameras, Num(0))
  /\ Arg.cameras # Res.camsRequired
  /\ \E t \in CalcTokens("cameras") :
       calc([Arg EXCEPT !.cameras = ToNumber(t)]).fovPerCamMm
         # Res.fovPerCamMm

(***************************************************************************)
(* Exact comparisons of binary64 values and of their products              *)
(***************************************************************************)
\* The exact product a * b, not rounded.
ExactMul(a, b) == [m |-> BMul(a.m, b.m), e |-> a.e + b.e]

\* The exact product a * k for an integer k > 0.
ExactScale(a, k) == [m |-> BMul(a.m, BOf(k)), e |-> a.e]

\* |a - b| <= 10^-9 * b
WithinRel(a, b) ==
  LET e == MinExp(a, b)
      x == Aligned(a, e)
      y == Aligned(b, e)
      diff == IF BCmp(x, y) >= 0 THEN BSub(x, y) ELSE BSub(y, x)
  IN  BCmp(BMul(diff, BOf(10^9)), y) <= 0

\* The binary64 inputs of the call.
Arg64 == Inputs64(Arg)

\* C13: for valid dpi > 0, eqDpi equals the input dpi within a relative
\* tolerance of 10^-9 (the two divisions by 25.4 round, so it need not be
\* the same binary64 value), and linePitchMm equals pixelSizeObjMm.
RoundTripWithinTolerance ==
  (Called /\ ValidInputs(Arg)) =>
    /\ WithinRel(Res.eqDpi, Arg64.dpi)
    /\ Res.linePitchMm = Res.pixelSizeObjMm

\* C13 as stated: eqDpi is the input dpi itself.
RoundTripExact ==
  (Called /\ ValidInputs(Arg)) =>
    /\ Res.eqDpi = Arg64.dpi
    /\ Res.linePitchMm = Res.pixelSizeObjMm

\* C13 witness: a valid call whose eqDpi is not the binary64 value of dpi
\* and lies within the tolerance.
RoundTripWitness ==
  /\ Called
  /\ ValidInputs(Arg)
  /\ Res.eqDpi # Arg64.dpi
  /\ WithinRel(Res.eqDpi, Arg64.dpi)

\* The inputs of the documented example.
ExampleInputs ==
  [widthMm |-> Num(1200), lengthMm |-> Num(1200), dpi |-> Num(250),
   sensorPx |-> Num(8192), pixelPitchUm |-> Num(7), wdMm |-> Num(600),
   speedMmS |-> Num(200), overlap |-> Norm(12, 100), cameras |-> Num(2),
   json |-> FALSE]

\* What the example's results round to, at the digits the table shows.
ExampleRounded(res) ==
  /\ ToFixed(res.pixelSizeObjMm, 4) = <<"0", ".", "1", "0", "1", "6">>
  /\ ToFixed(res.pxNeededAcross, 0) = <<"1", "1", "8", "1", "1">>
  /\ ToFixed(res.pxNeededWithMargin, 0) = <<"1", "3", "2", "2", "8">>
  /\ ToFixed(res.magnification, 4) = <<"0", ".", "0", "8", "5", "3">>
  /\ ToFixed(res.focalLengthMm, 1) = <<"4", "7", ".", "2">>
  /\ ToFixed(res.linePitchMm, 3) = <<"0", ".", "1", "0", "2">>
  /\ ToFixed(res.linesNeeded, 0) = <<"1", "1", "8", "1", "1">>
  /\ ToFixed(res.lineRateHz, 2) = <<"1", "9", "6", "8", ".", "5", "0">>

\* The value cells of the example's output table.
ExampleCells(t) ==
  /\ t.pixelSizeObjMm = <<"0", ".", "1", "0", "1", "6">>
  /\ t.pxNeededAcross = <<"1", "1", "8", "1", "1">>
  /\ t.pxNeededWithMargin = <<"1", "3", "2", "2", "8">>
  /\ t.magnification = <<"0", ".", "0", "8", "5", "3">>
  /\ t.focalLengthMm = <<"4", "7", ".", "2">>
  /\ t.linePitchMm = <<"0", ".", "1", "0", "2">>
  /\ t.linesNeeded = <<"1", "1", "8", "1", "1">>
  /\ t.lineRateHz = <<"1", "9", "6", "8", ".", "5", "0">>
  /\ t.fovPerCamMm = <<"6", "7", "2", ".", "0">>
  /\ t.sensorLengthMm = <<"5", "7", ".", "3", "4", "4">>
  /\ t.eqDpi = <<"2", "5", "0", ".", "0">>

\* C14: for the documented example inputs calc returns camsRequired = 2,
\* sensorLengthMm = 57.344, fovPerCamMm = 672.0000000000001 (one unit in
\* the last place above 672, shown as 672.0), and values that round to
\* pixelSizeObjMm 0.1016, pxNeededAcross 11811, pxNeededWithMargin 13228,
\* magnification 0.0853, focalLengthMm 47.2, linePitchMm 0.102,
\* linesNeeded 11811 and lineRateHz 1968.50; the table shows these.
ExampleValues ==
  (Called /\ Arg = ExampleInputs) =>
    /\ Res.camsRequired = DNum(2)
    /\ Res.sensorLengthMm = DOf(Norm(57344, 1000))
    /\ Res.fovPerCamMm = [m |-> BAdd(DNum(672).m, <<1>>), e |-> DNum(672).e]
    /\ ToFixed(Res.fovPerCamMm, 1) = <<"6", "7", "2", ".", "0">>
    /\ ExampleRounded(Res)
    /\ pc \in {"returned", "exited"} => ExampleCells(out[Len(out)].data)

\* C14 as stated: fovPerCamMm is 672 itself.
ExampleValuesExact ==
  (Called /\ Arg = ExampleInputs) =>
    /\ Res.camsRequired = DNum(2)
    /\ Res.fovPerCamMm = DNum(672)
    /\ Res.sensorLengthMm = DOf(Norm(57344, 1000))
    /\ ExampleRounded(Res)

\* C14 witness: the run on the example inputs has printed its table.
ExampleWitness ==
  /\ Called
  /\ Arg = ExampleInputs
  /\ pc = "exited"
  /\ out[Len(out)].kind = "table"
  /\ out[Len(out)].data.camsRequired = DNum(2)

\* The camera count the later formulas use: cameras when > 0, else
\* camsRequired.
CountUsed == IF Gt(Arg.cameras, Num(0)) THEN Arg.cameras ELSE Res.camsRequired

\* C15: for inputs satisfying the data-model constraints no division of
\* calc has a zero divisor and every result is strictly positive (and
\* finite): camsRequired >= 1, the count used >= 1, fovPerCamMm > 0,
\* magnification > 0 and 1 + magnification > 1.
PositiveResults ==
  (Called /\ ValidInputs(Arg)) =>
    /\ \A f \in DOMAIN Res : IsFinite(Res[f]) /\ Gt(Res[f], Num(0))
    /\ IsInteger(Res.camsRequired)
    /\ Ge(Res.camsRequired, Num(1))
    /\ Ge(CountUsed, Num(1))
    /\ Gt(Add(Num(1), Res.magnification), Num(1))
    /\ \A dv \in {Arg.dpi, Res.pixelSizeObjMm,
                  Mul(Arg.sensorPx, Sub(Num(1), Arg.overlap)), CountUsed,
                  Res.fovPerCamMm, Add(Num(1), Res.magnification),
                  Res.linePitchMm} :
         IsFinite(dv) /\ dv # Num(0)

\* C15 witness: a valid call with automatic camera count whose quotient is
\* below 1, so that camsRequired = 1 only by the ceiling.
PositiveResultsWitness ==
  /\ Called
  /\ ValidInputs(Arg)
  /\ Arg.cameras = Num(0)
  /\ Lt(Div(Res.pxNeededWithMargin,
            Mul(Arg.sensorPx, Sub(Num(1), Arg.overlap))), Num(1))
  /\ Res.camsRequired = Num(1)

\* sensorPx * (1 - overlap), as line 94 computes it.
Cap64 == DMul(Arg64.sensorPx, DSub(DNum(1), Arg64.overlap))

\* fovPerCamMm / pixelSizeObjMm <= x * (1 + k * 10^-9), compared exactly.
PerCamAtMost(x, k) ==
  DCmp(ExactScale(Res.fovPerCamMm, 10^9),
       ExactScale(ExactMul(x, Res.pixelSizeObjMm), 10^9 + k)) <= 0

\* cameras is positive and below camsRequired.
UnderProvisioned ==
  DTruthy(Arg64.cameras) /\ DCmp(Arg64.cameras, Res.camsRequired) < 0

\* calc has returned its thirteen results and nothing was thrown or
\* written to the error stream.
ReturnedQuietly ==
  Cardinality(DOMAIN Res) = 13 /\ exc = <<>> /\ err = <<>>

\* C16: for valid inputs with cameras = 0 or cameras >= camsRequired, the
\* object pixels per camera, fovPerCamMm / pixelSizeObjMm, are at most
\* sensorPx * (1 - overlap), hence at most usablePxPerCam = sensorPx, up to
\* a relative rounding error of 10^-9; with 0 < cameras < camsRequired they
\* exceed sensorPx * (1 - overlap) up to the same error, and calc still
\* returns its results, with no error and no flag.
PerCameraBound ==
  (Called /\ ValidInputs(Arg)) =>
    /\ Res.usablePxPerCam = Arg64.sensorPx
    /\ ~UnderProvisioned =>
         PerCamAtMost(Cap64, 1) /\ PerCamAtMost(Res.usablePxPerCam, 1)
    /\ UnderProvisioned => ~PerCamAtMost(Cap64, -1) /\ ReturnedQuietly

\* C16 as stated: the bounds hold of the returned values themselves.
PerCameraBoundExact ==
  (Called /\ ValidInputs(Arg)) =>
    /\ Res.usablePxPerCam = Arg64.sensorPx
    /\ ~UnderProvisioned =>
         PerCamAtMost(Cap64, 0) /\ PerCamAtMost(Res.usablePxPerCam, 0)
    /\ UnderProvisioned => ~PerCamAtMost(Cap64, 0) /\ ReturnedQuietly

\* C16 witness: a run that ended normally after a valid call whose cameras
\* is positive and below camsRequired, with more object pixels per camera
\* than the sensor has.
PerCameraBoundWitness ==
  /\ Called
  /\ ValidInputs(Arg)
  /\ UnderProvisioned
  /\ ~PerCamAtMost(Res.usablePxPerCam, 1)
  /\ pc = "exited"
  /\ exitCode = <<0>>

\* C17: for valid inputs focalLengthMm lies strictly between 0 and wdMm,
\* and the denominator 1 + magnification is positive.
FocalLengthBounds ==
  (Called /\ ValidInputs(Arg)) =>
    /\ Gt(Add(Num(1), Res.magnification), Num(0))
    /\ Gt(Res.focalLengthMm, Num(0))
    /\ Lt(Res.focalLengthMm, Arg.wdMm)
    /\ Mul(Res.focalLengthMm, Add(Num(1), Res.magnification))
         = Mul(Res.magnification, Arg.wdMm)

\* C17 witness: a valid call with magnification above 1, whose focal
\* length is more than half the working distance.
FocalLengthWitness ==
  /\ Called
  /\ ValidInputs(Arg)
  /\ Gt(Res.magnification, Num(1))
  /\ Gt(Mul(Num(2), Res.focalLengthMm), Arg.wdMm)

=============================================================================
